---- MODULE Spec2Model ----
(***************************************************************************)
(* A model of the message-format template engine: the parser               *)
(* (src/src/parser.rs), the data model (src/src/types.rs), the formatter   *)
(* (src/src/formatter.rs) and the parse-then-format pipeline               *)
(* (src/src/lib.rs).                                                       *)
(*                                                                         *)
(* Text is a sequence of one-character strings.  Parameter names,          *)
(* selectors and bound string values are text as well.                     *)
(***************************************************************************)
EXTENDS Integers, Sequences, FiniteSets

VARIABLES
    via,          \* "lib": lib::format was called; "direct": format_message was
    input,        \* the template text handed to lib::format
    parse_result, \* what parse_message returned (NotParsed before the call)
    message,      \* the Message format_message walks
    parameters,   \* the binding set: a sequence of (name, value) pairs
    idx,          \* position of the `for element in &message.elements` loop
    result,       \* the String accumulated by format_message
    returned,     \* what format_message returned (NotReturned while running)
    outcome,      \* what lib::format returned (NotReturned while running)
    pc,           \* "parse", "loop", "returned", "done"; for from_slice:
                  \* "from_slice", "built", "panicked"
    slice,        \* the list handed to Parameters::from_slice
    panic,        \* the key a panic of from_slice names (None without one)
    calls         \* the calls of format_message made on `message` so far

\* What belongs to the caller of the formatter.
caller == <<slice, panic, calls>>

vars == <<via, input, parse_result, message, parameters, idx, result,
          returned, outcome, pc, slice, panic, calls>>

----------------------------------------------------------------------------
(* Characters and text                                                     *)

DigitChars == <<"0", "1", "2", "3", "4", "5", "6", "7", "8", "9">>

AsciiDigit == {DigitChars[i] : i \in 1..Len(DigitChars)}

LowerChars ==
    <<"a", "b", "c", "d", "e", "f", "g", "h", "i", "j", "k", "l", "m",
      "n", "o", "p", "q", "r", "s", "t", "u", "v", "w", "x", "y", "z">>

UpperChars ==
    <<"A", "B", "C", "D", "E", "F", "G", "H", "I", "J", "K", "L", "M",
      "N", "O", "P", "Q", "R", "S", "T", "U", "V", "W", "X", "Y", "Z">>

AsciiLower == {LowerChars[i] : i \in 1..Len(LowerChars)}

AsciiUpper == {UpperChars[i] : i \in 1..Len(UpperChars)}

\* Non-ASCII characters for which char::is_alphanumeric is true, written by
\* code point: U+00E9 (e with acute, a letter) and U+0663 (Arabic-Indic
\* digit three, a decimal digit).
UnicodeAlphanumeric == {"U+00E9", "U+0663"}

\* char::is_alphanumeric (Unicode Alphabetic or Numeric).
IsAlphanumeric(c) ==
    c \in AsciiLower \cup AsciiUpper \cup AsciiDigit \cup UnicodeAlphanumeric

\* char::is_ascii_alphabetic
IsAsciiAlphabetic(c) == c \in AsciiLower \cup AsciiUpper

\* The characters nom's multispace0 skips: space, tab, CR, LF.
IsMultispace(c) == c \in {" ", "\t", "\r", "\n"}

\* The UTF-8 length of a text, which is what str::len counts.
ByteLen(text) ==
    Len(text) + Cardinality({i \in 1..Len(text) : text[i] \in UnicodeAlphanumeric})

\* str::to_uppercase on the characters of the model.
ToUppercase(text) ==
    [i \in 1..Len(text) |->
        IF text[i] \in AsciiLower
        THEN UpperChars[CHOOSE k \in 1..Len(LowerChars) : LowerChars[k] = text[i]]
        ELSE text[i]]

DigitValue(c) == (CHOOSE i \in 1..Len(DigitChars) : DigitChars[i] = c) - 1

RECURSIVE Concat(_)
\* The concatenation of a sequence of texts.
Concat(ss) == IF ss = <<>> THEN <<>> ELSE Head(ss) \o Concat(Tail(ss))

RECURSIVE NatToString(_)
NatToString(n) ==
    IF n < 10 THEN <<DigitChars[n + 1]>>
    ELSE NatToString(n \div 10) \o <<DigitChars[(n % 10) + 1]>>

\* i64::to_string: the decimal digits, with a leading '-' when negative.
I64ToString(n) == IF n < 0 THEN <<"-">> \o NatToString(-n) ELSE NatToString(n)

----------------------------------------------------------------------------
(* Option and Result values                                                *)

None == [some |-> FALSE]

Some(x) == [some |-> TRUE, v |-> x]

Ok(x) == [tag |-> "Ok", value |-> x]

Err(e) == [tag |-> "Err", error |-> e]

IsOk(r) == r.tag = "Ok"

\* `v` handed to `K` as a value: the steps of a computation run one after
\* the other, each on the outcome of the one before.
Bind(v, K(_)) == CHOOSE out \in {K(x) : x \in {v}} : TRUE

IsErr(r) == r.tag = "Err"

\* FormatError
MissingParameter(name) == [kind |-> "MissingParameter", name |-> name]

InvalidParameterType(name) == [kind |-> "InvalidParameterType", name |-> name]

----------------------------------------------------------------------------
(* The data model (types.rs)                                               *)

\* MessageElement
Text(text) == [type |-> "Text", text |-> text]

Parameter(name) == [type |-> "Parameter", name |-> name]

Plural(parameter, cases) ==
    [type |-> "Plural", parameter |-> parameter, cases |-> cases]

Select(parameter, cases) ==
    [type |-> "Select", parameter |-> parameter, cases |-> cases]

Number(parameter, format_type) ==
    [type |-> "Number", parameter |-> parameter, format_type |-> format_type]

\* PluralCase and SelectCase
Case(selector, msg) == [selector |-> selector, message |-> msg]

\* PluralSelector
Zero == [kind |-> "Zero", n |-> 0]

One == [kind |-> "One", n |-> 0]

Two == [kind |-> "Two", n |-> 0]

Few == [kind |-> "Few", n |-> 0]

Many == [kind |-> "Many", n |-> 0]

Other == [kind |-> "Other", n |-> 0]

Exact(n) == [kind |-> "Exact", n |-> n]

\* NumberFormatType
NumberFormat == [kind |-> "Number", code |-> <<>>]

IntegerFormat == [kind |-> "Integer", code |-> <<>>]

PercentFormat == [kind |-> "Percent", code |-> <<>>]

Currency(code) == [kind |-> "Currency", code |-> code]

\* ParameterValue
StringValue(s) == [kind |-> "String", s |-> s, n |-> 0]

NumberValue(n) == [kind |-> "Number", s |-> <<>>, n |-> n]

\* Parameters::get: the value of the first pair whose key equals `key`.
Get(pairs, key) ==
    LET hits == {i \in 1..Len(pairs) : pairs[i][1] = key}
    IN  IF hits = {} THEN None
        ELSE Some(pairs[CHOOSE i \in hits : \A j \in hits : i <= j][2])

----------------------------------------------------------------------------
(* Conversions of the standard library used by the formatter               *)

\* i64::MAX and -i64::MIN as digits: the model compares digit strings, since
\* the values themselves are wider than the model's integers.
I64MaxDigits ==
    <<"9", "2", "2", "3", "3", "7", "2", "0", "3", "6", "8", "5", "4", "7",
      "7", "5", "8", "0", "7">>

I64MinDigits ==
    <<"9", "2", "2", "3", "3", "7", "2", "0", "3", "6", "8", "5", "4", "7",
      "7", "5", "8", "0", "8">>

RECURSIVE StripZeros(_)
StripZeros(ds) ==
    IF Len(ds) > 1 /\ Head(ds) = "0" THEN StripZeros(Tail(ds)) ELSE ds

\* ds > limit as decimal numerals without leading zeros.
NumeralGreater(ds, limit) ==
    \/ Len(ds) > Len(limit)
    \/ /\ Len(ds) = Len(limit)
       /\ \E i \in 1..Len(ds) :
            /\ DigitValue(ds[i]) > DigitValue(limit[i])
            /\ \A j \in 1..(i - 1) : ds[j] = limit[j]

RECURSIVE DigitsValue(_)
DigitsValue(ds) ==
    IF ds = <<>> THEN 0
    ELSE 10 * DigitsValue(SubSeq(ds, 1, Len(ds) - 1))
         + DigitValue(ds[Len(ds)])

\* str::parse::<i64>: an optional sign and one or more ASCII digits, an error
\* on anything else and on overflow.  (Texts of the model hold numerals of
\* at most nine significant digits, or numerals that overflow.)
ParseI64(s) ==
    LET signed == s # <<>> /\ s[1] \in {"+", "-"}
        neg    == s # <<>> /\ s[1] = "-"
        ds     == IF signed THEN Tail(s) ELSE s
    IN  IF ds = <<>> \/ \E i \in 1..Len(ds) : ds[i] \notin AsciiDigit
        THEN None
        ELSE IF NumeralGreater(StripZeros(ds),
                               IF neg THEN I64MinDigits ELSE I64MaxDigits)
        THEN None
        ELSE Some(IF neg THEN -DigitsValue(ds) ELSE DigitsValue(ds))

\* A decimal value: sign, whole part, and fraction digits.
Decimal(neg, whole, frac) == [neg |-> neg, whole |-> whole, frac |-> frac]

\* `n as f64`
I64ToF64(n) == Decimal(n < 0, IF n < 0 THEN -n ELSE n, <<>>)

\* str::parse::<f64> on plain decimal numerals: an optional sign, digits, an
\* optional '.' and fraction digits, at least one digit in all.  (Exponents
\* and the words inf, infinity and nan, which Rust also accepts, do not
\* occur among the model's texts.)
ParseF64(s) ==
    LET signed == s # <<>> /\ s[1] \in {"+", "-"}
        neg    == s # <<>> /\ s[1] = "-"
        body   == IF signed THEN Tail(s) ELSE s
        dots   == {i \in 1..Len(body) : body[i] = "."}
        dot    == IF dots = {} THEN Len(body) + 1
                  ELSE CHOOSE i \in dots : \A j \in dots : i <= j
        whole  == SubSeq(body, 1, dot - 1)
        frac   == SubSeq(body, dot + 1, Len(body))
    IN  IF \/ Cardinality(dots) > 1
           \/ whole \o frac = <<>>
           \/ \E i \in 1..Len(whole) : whole[i] \notin AsciiDigit
           \/ \E i \in 1..Len(frac) : frac[i] \notin AsciiDigit
        THEN None
        ELSE Some(Decimal(neg, DigitsValue(whole), frac))

----------------------------------------------------------------------------
(* The formatter (formatter.rs)                                            *)

\* `for case in cases { if matches(case) { return Some(case) } }`: the index
\* of the first case of `cases` in `hits`, as a reference to that case.
FirstCase(hits) ==
    IF hits = {} THEN None
    ELSE Some(CHOOSE i \in hits : \A j \in hits : i <= j)

\* PluralRule with 0 counted as singular.
PluralRuleZeroIsOne(count) ==
    CASE count = 0 -> One
      [] count = 1 -> One
      [] count = 2 -> Two
      [] OTHER     -> Other

\* PluralRule with a `few` category for the count 3.
PluralRuleWithFew(count) ==
    CASE count = 0 -> Zero
      [] count = 1 -> One
      [] count = 2 -> Two
      [] count = 3 -> Few
      [] OTHER     -> Other

\* The rule-derived category of a count.
PluralRule(count) ==
    CASE count = 0 -> Zero
      [] count = 1 -> One
      [] count = 2 -> Two
      [] OTHER     -> Other

\* select_plural_case with the category looked for before the exact number.
SelectPluralCaseRuleFirst(plural_expr, count) ==
    LET cases   == plural_expr.cases
        exact   == {i \in 1..Len(cases) : /\ cases[i].selector.kind = "Exact"
                                          /\ cases[i].selector.n = count}
        rule    == {i \in 1..Len(cases) : cases[i].selector = PluralRule(count)}
        other   == {i \in 1..Len(cases) : cases[i].selector = Other}
    IN  IF rule # {} THEN FirstCase(rule)
        ELSE IF exact # {} THEN FirstCase(exact)
        ELSE FirstCase(other)

\* select_plural_case: the selected case, by its index in plural_expr.cases.
SelectPluralCase(plural_expr, count) ==
    LET cases   == plural_expr.cases
        exact   == {i \in 1..Len(cases) : /\ cases[i].selector.kind = "Exact"
                                          /\ cases[i].selector.n = count}
        rule    == {i \in 1..Len(cases) : cases[i].selector = PluralRule(count)}
        other   == {i \in 1..Len(cases) : cases[i].selector = Other}
    IN  IF exact # {} THEN FirstCase(exact)
        ELSE IF rule # {} THEN FirstCase(rule)
        ELSE FirstCase(other)

RECURSIVE Replace(_, _, _)
\* str::replace with a one-character pattern: every occurrence of `from`,
\* left to right, gives way to `to`.
Replace(text, from, to) ==
    IF text = <<>> THEN <<>>
    ELSE (IF Head(text) = from THEN to ELSE <<Head(text)>>)
         \o Replace(Tail(text), from, to)

RECURSIVE ReplaceFirst(_, _, _)
ReplaceFirst(text, from, to) ==
    IF text = <<>> THEN <<>>
    ELSE IF Head(text) = from THEN to \o Tail(text)
    ELSE <<Head(text)>> \o ReplaceFirst(Tail(text), from, to)

\* substitute_hash_placeholder replacing the first '#' only.
SubstituteFirstHashOnly(text, count) ==
    ReplaceFirst(text, "#", I64ToString(count))

\* substitute_hash_placeholder
SubstituteHashPlaceholder(text, count) == Replace(text, "#", I64ToString(count))

\* The selector "other" of a select case.
OtherSelector == <<"o", "t", "h", "e", "r">>

\* select_case comparing without regard to letter case.
SelectCaseIgnoringCase(select_expr, value) ==
    LET cases == select_expr.cases
        exact == {i \in 1..Len(cases) :
                    ToUppercase(cases[i].selector) = ToUppercase(value)}
        other == {i \in 1..Len(cases) : cases[i].selector = OtherSelector}
    IN  IF exact # {} THEN FirstCase(exact) ELSE FirstCase(other)

\* select_case falling back to the first case when nothing matches.
SelectCaseFallsBackToFirst(select_expr, value) ==
    LET cases == select_expr.cases
        exact == {i \in 1..Len(cases) : cases[i].selector = value}
        other == {i \in 1..Len(cases) : cases[i].selector = OtherSelector}
    IN  IF exact # {} THEN FirstCase(exact)
        ELSE IF other # {} THEN FirstCase(other)
        ELSE Some(1)

\* select_case: the selected case, by its index in select_expr.cases.
SelectCase(select_expr, value) ==
    LET cases == select_expr.cases
        exact == {i \in 1..Len(cases) : cases[i].selector = value}
        other == {i \in 1..Len(cases) : cases[i].selector = OtherSelector}
    IN  IF exact # {} THEN FirstCase(exact) ELSE FirstCase(other)

RECURSIVE TrimTrailingZeros(_)
TrimTrailingZeros(ds) ==
    IF ds # <<>> /\ ds[Len(ds)] = "0"
    THEN TrimTrailingZeros(SubSeq(ds, 1, Len(ds) - 1))
    ELSE ds

\* `value as i64` (truncation toward zero), rendered.
TruncatedText(value) ==
    IF value.neg /\ value.whole > 0
    THEN <<"-">> \o NatToString(value.whole)
    ELSE NatToString(value.whole)

\* The FixedDecimal built from a value, rendered for a locale with ASCII
\* digits (values below the first grouping separator).
FixedDecimalText(value) ==
    LET frac == TrimTrailingZeros(value.frac)
    IN  IF frac = <<>> THEN TruncatedText(value)
        ELSE (IF value.neg THEN <<"-">> ELSE <<>>)
             \o NatToString(value.whole) \o <<".">> \o frac

\* `(value * 100.0) as i64`, for values whose product is exact.
PercentText(value) ==
    LET f2 == SubSeq(value.frac \o <<"0", "0">>, 1, 2)
        p  == value.whole * 100 + DigitsValue(f2)
    IN  IF value.neg /\ p > 0 THEN <<"-">> \o NatToString(p)
        ELSE NatToString(p)

\* The currency sign the number formatting service writes for a code.
CurrencySign(code) ==
    CASE code = <<"U", "S", "D">> -> <<"$">>
      [] code = <<"E", "U", "R">> -> <<"U+20AC">>
      [] OTHER                    -> code \o <<" ">>

\* The length a currency code must have.
CurrencyCodeLen == 3

\* format_number checking the length of a currency code only.
FormatNumberAnyThreeBytes(value, format_type) ==
    CASE format_type.kind = "Number"  -> Ok(FixedDecimalText(value))
      [] format_type.kind = "Integer" -> Ok(TruncatedText(value))
      [] format_type.kind = "Percent" -> Ok(PercentText(value) \o <<"%">>)
      [] format_type.kind = "Currency" ->
            LET currency == format_type.code
            IN  IF ByteLen(currency) = CurrencyCodeLen
                THEN Ok(CurrencySign(ToUppercase(currency))
                        \o FixedDecimalText(value))
                ELSE Err(InvalidParameterType(
                        <<"Currency code must be 3 ASCII letters: ">>
                        \o currency))

\* format_number
FormatNumber(value, format_type) ==
    CASE format_type.kind = "Number"  -> Ok(FixedDecimalText(value))
      [] format_type.kind = "Integer" -> Ok(TruncatedText(value))
      [] format_type.kind = "Percent" -> Ok(PercentText(value) \o <<"%">>)
      [] format_type.kind = "Currency" ->
            LET currency == format_type.code
            IN  IF /\ ByteLen(currency) = CurrencyCodeLen
                   /\ \A i \in 1..Len(currency) : IsAsciiAlphabetic(currency[i])
                THEN Ok(CurrencySign(ToUppercase(currency))
                        \o FixedDecimalText(value))
                ELSE Err(InvalidParameterType(
                        <<"Currency code must be 3 ASCII letters: ">>
                        \o currency))

\* The Parameter arm rendering a missing parameter as the empty text.
FormatParameterMissingAsEmpty(element, params) ==
    LET got == Get(params, element.name)
    IN  IF ~got.some THEN Ok(<<>>)
        ELSE IF got.v.kind = "String" THEN Ok(got.v.s)
        ELSE Ok(I64ToString(got.v.n))

\* The Parameter arm of format_message's match.  Every arm answers Ok(text)
\* when it pushes `text` onto the result and Err(e) when it makes
\* format_message return Err(e).
FormatParameter(element, params) ==
    LET got == Get(params, element.name)
    IN  IF ~got.some THEN Err(MissingParameter(element.name))
        ELSE IF got.v.kind = "String" THEN Ok(got.v.s)
        ELSE Ok(I64ToString(got.v.n))

\* The Number arm.
FormatNumberElement(element, params) ==
    LET got   == Get(params, element.parameter)
        value == IF got.v.kind = "Number" THEN Some(I64ToF64(got.v.n))
                 ELSE ParseF64(got.v.s)
    IN  IF ~got.some THEN Err(MissingParameter(element.parameter))
        ELSE IF ~value.some THEN Err(InvalidParameterType(element.parameter))
        ELSE FormatNumber(value.v, element.format_type)

RECURSIVE FormatMessage(_, _)

\* The Plural arm taking a String that is no integer for the count 0.
FormatPluralInvalidAsZero(element, params) ==
    LET got   == Get(params, element.parameter)
        count == IF got.v.kind = "Number" THEN got.v.n
                 ELSE IF ParseI64(got.v.s).some THEN ParseI64(got.v.s).v
                 ELSE 0
    IN  IF ~got.some THEN Err(MissingParameter(element.parameter))
        ELSE LET selected == SelectPluralCase(element, count)
             IN  IF ~selected.some THEN Ok(<<>>)
                 ELSE Bind(FormatMessage(element.cases[selected.v].message,
                                         params),
                           LAMBDA sub :
                      IF IsErr(sub) THEN sub
                      ELSE Ok(SubstituteHashPlaceholder(sub.value, count)))

\* The Plural arm formatting every case body before it selects one.
FormatPluralEvaluatesEveryCase(element, params) ==
    LET got    == Get(params, element.parameter)
        count  == IF got.v.kind = "Number" THEN Some(got.v.n)
                  ELSE ParseI64(got.v.s)
        failed == {i \in 1..Len(element.cases) :
                     IsErr(FormatMessage(element.cases[i].message, params))}
    IN  IF ~got.some THEN Err(MissingParameter(element.parameter))
        ELSE IF ~count.some THEN Err(InvalidParameterType(element.parameter))
        ELSE IF failed # {}
        THEN FormatMessage(
                element.cases[CHOOSE i \in failed :
                                \A j \in failed : i <= j].message, params)
        ELSE LET selected == SelectPluralCase(element, count.v)
             IN  IF ~selected.some THEN Ok(<<>>)
                 ELSE Bind(FormatMessage(element.cases[selected.v].message,
                                         params),
                           LAMBDA sub :
                      Ok(SubstituteHashPlaceholder(sub.value, count.v)))

\* The Plural arm replacing the '#' of the chosen case's own texts only, and
\* before the case is rendered.
FormatPluralSubstitutesTextsOnly(element, params) ==
    LET got   == Get(params, element.parameter)
        count == IF got.v.kind = "Number" THEN Some(got.v.n)
                 ELSE ParseI64(got.v.s)
    IN  IF ~got.some THEN Err(MissingParameter(element.parameter))
        ELSE IF ~count.some THEN Err(InvalidParameterType(element.parameter))
        ELSE LET selected == SelectPluralCase(element, count.v)
             IN  IF ~selected.some THEN Ok(<<>>)
                 ELSE LET body == element.cases[selected.v].message
                      IN  FormatMessage(
                            [j \in 1..Len(body) |->
                               IF body[j].type = "Text"
                               THEN Text(SubstituteHashPlaceholder(
                                            body[j].text, count.v))
                               ELSE body[j]],
                            params)

\* The Plural arm.
FormatPlural(element, params) ==
    LET got   == Get(params, element.parameter)
        count == IF got.v.kind = "Number" THEN Some(got.v.n)
                 ELSE ParseI64(got.v.s)
    IN  IF ~got.some THEN Err(MissingParameter(element.parameter))
        ELSE IF ~count.some THEN Err(InvalidParameterType(element.parameter))
        ELSE LET selected == SelectPluralCase(element, count.v)
             IN  IF ~selected.some THEN Ok(<<>>)
                 ELSE Bind(FormatMessage(element.cases[selected.v].message,
                                         params),
                           LAMBDA sub :
                      IF IsErr(sub) THEN sub
                      ELSE Ok(SubstituteHashPlaceholder(sub.value, count.v)))

\* The Select arm selecting by the decimal text of a Number.
FormatSelectNumberAsText(element, params) ==
    LET got == Get(params, element.parameter)
    IN  IF ~got.some THEN Err(MissingParameter(element.parameter))
        ELSE LET value    == IF got.v.kind = "Number"
                             THEN I64ToString(got.v.n) ELSE got.v.s
                 selected == SelectCase(element, value)
             IN  IF ~selected.some THEN Ok(<<>>)
                 ELSE FormatMessage(element.cases[selected.v].message, params)

\* The Select arm.
FormatSelect(element, params) ==
    LET got == Get(params, element.parameter)
    IN  IF ~got.some THEN Err(MissingParameter(element.parameter))
        ELSE IF got.v.kind = "Number"
        THEN Err(InvalidParameterType(element.parameter))
        ELSE LET selected == SelectCase(element, got.v.s)
             IN  IF ~selected.some THEN Ok(<<>>)
                 ELSE FormatMessage(element.cases[selected.v].message, params)

\* The body of the `for element in &message.elements` loop for one element.
FormatElement(element, params) ==
    CASE element.type = "Text"      -> Ok(element.text)
      [] element.type = "Parameter" -> FormatParameter(element, params)
      [] element.type = "Plural"    -> FormatPlural(element, params)
      [] element.type = "Select"    -> FormatSelect(element, params)
      [] element.type = "Number"    -> FormatNumberElement(element, params)

RECURSIVE FormatLoop(_, _, _, _)

\* The loop of format_message from element `i` on, with `acc` accumulated.
FormatLoop(msg, params, i, acc) ==
    IF i > Len(msg) THEN Ok(acc)
    ELSE Bind(FormatElement(msg[i], params), LAMBDA r :
         IF IsErr(r) THEN r
         ELSE FormatLoop(msg, params, i + 1, acc \o r.value))

\* format_message, as a function of its arguments (the recursive calls).
FormatMessage(msg, params) == FormatLoop(msg, params, 1, <<>>)

----------------------------------------------------------------------------
(* The parser (parser.rs).  A parser takes the text `s` and the position   *)
(* `i` of the first character not yet consumed; it answers Parsed(j, v)    *)
(* when it consumed s[i..j-1] and produced v, so that the rest handed on   *)
(* is s[j..], and Failed on nom's Err::Error.                              *)

Failed == [ok |-> FALSE, pos |-> 0, val |-> <<>>]

Parsed(j, v) == [ok |-> TRUE, pos |-> j, val |-> v]

\* char(c): the character at position i is c.
CharAt(s, i, c) == i <= Len(s) /\ s[i] = c

\* tag(t): the text t starts at position i.
TagAt(s, i, t) ==
    /\ i + Len(t) - 1 <= Len(s)
    /\ \A k \in 1..Len(t) : s[i + k - 1] = t[k]

\* The character predicates handed to take_while1, by name.
Satisfies(c, class) ==
    CASE class = "multispace"   -> IsMultispace(c)
      [] class = "alphanumeric" -> IsAlphanumeric(c)
      [] class = "name"         -> IsAlphanumeric(c) \/ c = "_"
      [] class = "case_text"    -> c # "{" /\ c # "}"
      [] class = "text"         -> c # "{"

\* take_while(class): the position after the longest run at i of characters
\* of the class.
TakeWhile(s, i, class) ==
    CHOOSE j \in i..(Len(s) + 1) :
        /\ \A k \in i..(j - 1) : Satisfies(s[k], class)
        /\ j = Len(s) + 1 \/ ~Satisfies(s[j], class)

\* multispace0
Multispace0(s, i) == TakeWhile(s, i, "multispace")

\* alt((p, q)) at one position: p's outcome, or q's when p failed.
OrElse(p, q) == Bind(p, LAMBDA r : IF r.ok THEN r ELSE q)

\* take_while1(P), yielding the run.
TakeWhile1(s, i, class) ==
    Bind(TakeWhile(s, i, class),
         LAMBDA j : IF j = i THEN Failed ELSE Parsed(j, SubSeq(s, i, j - 1)))

\* parameter_name
ParameterName(s, i) == TakeWhile1(s, i, "name")

\* simple_parameter taking any text between the name and the '}'.
SimpleParameterAnyTail(s, i) ==
    IF ~CharAt(s, i, "{") THEN Failed
    ELSE Bind(ParameterName(s, Multispace0(s, i + 1)), LAMBDA name :
         IF ~name.ok THEN Failed
         ELSE Bind(TakeWhile(s, name.pos, "case_text"), LAMBDA close :
              IF CharAt(s, close, "}")
              THEN Parsed(close + 1, Parameter(name.val))
              ELSE Failed))

\* simple_parameter
SimpleParameter(s, i) ==
    IF ~CharAt(s, i, "{") THEN Failed
    ELSE Bind(ParameterName(s, Multispace0(s, i + 1)), LAMBDA name :
         IF ~name.ok THEN Failed
         ELSE Bind(Multispace0(s, name.pos), LAMBDA close :
              IF CharAt(s, close, "}")
              THEN Parsed(close + 1, Parameter(name.val))
              ELSE Failed))

PluralKeyword == <<"p", "l", "u", "r", "a", "l">>

SelectKeyword == <<"s", "e", "l", "e", "c", "t">>

NumberKeyword == <<"n", "u", "m", "b", "e", "r">>

\* PluralSelector::parse (types.rs)
PluralSelectorParse(s) ==
    CASE s = <<"z", "e", "r", "o">>      -> Some(Zero)
      [] s = <<"o", "n", "e">>           -> Some(One)
      [] s = <<"t", "w", "o">>           -> Some(Two)
      [] s = <<"f", "e", "w">>           -> Some(Few)
      [] s = <<"m", "a", "n", "y">>      -> Some(Many)
      [] s = <<"o", "t", "h", "e", "r">> -> Some(Other)
      [] OTHER -> Bind(ParseI64(s), LAMBDA num :
                  IF num.some THEN Some(Exact(num.v)) ELSE None)

\* plural_selector failing on a token that is no keyword and no integer.
PluralSelectorStrict(s, i) ==
    Bind(TakeWhile1(s, i, "alphanumeric"), LAMBDA token :
    IF ~token.ok THEN Failed
    ELSE Bind(PluralSelectorParse(token.val), LAMBDA sel :
         IF sel.some THEN Parsed(token.pos, sel.v) ELSE Failed))

\* plural_selector
PluralSelector(s, i) ==
    Bind(TakeWhile1(s, i, "alphanumeric"), LAMBDA token :
    IF ~token.ok THEN Failed
    ELSE Bind(PluralSelectorParse(token.val), LAMBDA sel :
         Parsed(token.pos, IF sel.some THEN sel.v ELSE Other)))

\* select_selector
SelectSelector(s, i) == TakeWhile1(s, i, "name")

\* text_segment_in_case
TextSegmentInCase(s, i) ==
    Bind(TakeWhile1(s, i, "case_text"), LAMBDA run :
    IF run.ok THEN Parsed(run.pos, Text(run.val)) ELSE Failed)

\* text_segment with the character class of a case body.
TextSegmentStopsAtCloseBrace(s, i) == TextSegmentInCase(s, i)

\* text_segment
TextSegment(s, i) ==
    Bind(TakeWhile1(s, i, "text"), LAMBDA run :
    IF run.ok THEN Parsed(run.pos, Text(run.val)) ELSE Failed)

\* The opening every keyword construct shares:
\* '{' ws name ws ',' ws keyword.  Yields the name.
ConstructHead(s, i, keyword) ==
    IF ~CharAt(s, i, "{") THEN Failed
    ELSE Bind(ParameterName(s, Multispace0(s, i + 1)), LAMBDA name :
         IF ~name.ok THEN Failed
         ELSE Bind(Multispace0(s, name.pos), LAMBDA comma :
              IF ~CharAt(s, comma, ",") THEN Failed
              ELSE Bind(Multispace0(s, comma + 1), LAMBDA word :
                   IF TagAt(s, word, keyword)
                   THEN Parsed(word + Len(keyword), name.val)
                   ELSE Failed)))

IntegerKeyword == <<"i", "n", "t", "e", "g", "e", "r">>

PercentKeyword == <<"p", "e", "r", "c", "e", "n", "t">>

CurrencyKeyword == <<"c", "u", "r", "r", "e", "n", "c", "y">>

\* The code of `currency` without a '/CODE' suffix.
DefaultCurrency == <<"U", "S", "D">>

\* number_format_type
NumberFormatType(s, i) ==
    CASE TagAt(s, i, IntegerKeyword) ->
            Parsed(i + Len(IntegerKeyword), IntegerFormat)
      [] TagAt(s, i, PercentKeyword) ->
            Parsed(i + Len(PercentKeyword), PercentFormat)
      [] TagAt(s, i, CurrencyKeyword) ->
            Bind(i + Len(CurrencyKeyword), LAMBDA slash :
            Bind(IF CharAt(s, slash, "/")
                 THEN TakeWhile1(s, slash + 1, "alphanumeric")
                 ELSE Failed, LAMBDA code :
            IF code.ok THEN Parsed(code.pos, Currency(code.val))
            ELSE Parsed(slash, Currency(DefaultCurrency))))
      [] OTHER -> Parsed(i, NumberFormat)

\* number_expression: the head, then either ws ',' ws number_format_type or
\* ws alone, then '}'.
NumberExpression(s, i) ==
    Bind(ConstructHead(s, i, NumberKeyword), LAMBDA head :
    IF ~head.ok THEN Failed
    ELSE Bind(Multispace0(s, head.pos), LAMBDA comma :
         Bind(IF CharAt(s, comma, ",")
              THEN NumberFormatType(s, Multispace0(s, comma + 1))
              ELSE Parsed(comma, NumberFormat), LAMBDA kind :
         IF CharAt(s, kind.pos, "}")
         THEN Parsed(kind.pos + 1, Number(head.val, kind.val))
         ELSE Failed)))

RECURSIVE CaseContent(_, _), Many0CaseElement(_, _, _), PluralCase(_, _),
          SelectCaseParser(_, _), Many0PluralCase(_, _, _),
          Many0SelectCase(_, _, _), PluralExpression(_, _),
          SelectExpression(_, _), CaseElement(_, _)

\* The alternatives of case_content's alt, tried in order.
CaseElement(s, i) ==
    OrElse(NumberExpression(s, i),
    OrElse(SelectExpression(s, i),
    OrElse(PluralExpression(s, i),
    OrElse(SimpleParameter(s, i),
           TextSegmentInCase(s, i)))))

\* many0 over the elements of a case body, `acc` being what is collected:
\* it stops at the first element that fails, and fails itself should an
\* element succeed without consuming.
Many0CaseElement(s, i, acc) ==
    Bind(CaseElement(s, i), LAMBDA e :
    IF ~e.ok THEN Parsed(i, acc)
    ELSE IF e.pos = i THEN Failed
    ELSE Many0CaseElement(s, e.pos, Append(acc, e.val)))

\* case_content
CaseContent(s, i) ==
    IF ~CharAt(s, i, "{") THEN Failed
    ELSE Bind(Many0CaseElement(s, i + 1, <<>>), LAMBDA body :
         IF body.ok /\ CharAt(s, body.pos, "}")
         THEN Parsed(body.pos + 1, body.val)
         ELSE Failed)

\* plural_case
PluralCase(s, i) ==
    Bind(PluralSelector(s, Multispace0(s, i)), LAMBDA selector :
    IF ~selector.ok THEN Failed
    ELSE Bind(CaseContent(s, Multispace0(s, selector.pos)), LAMBDA content :
         IF content.ok
         THEN Parsed(content.pos, Case(selector.val, content.val))
         ELSE Failed))

\* select_case (the parser's)
SelectCaseParser(s, i) ==
    Bind(SelectSelector(s, Multispace0(s, i)), LAMBDA selector :
    IF ~selector.ok THEN Failed
    ELSE Bind(CaseContent(s, Multispace0(s, selector.pos)), LAMBDA content :
         IF content.ok
         THEN Parsed(content.pos, Case(selector.val, content.val))
         ELSE Failed))

\* many0(plural_case), after the first case of many1
Many0PluralCase(s, i, acc) ==
    Bind(PluralCase(s, i), LAMBDA c :
    IF ~c.ok THEN Parsed(i, acc)
    ELSE IF c.pos = i THEN Failed
    ELSE Many0PluralCase(s, c.pos, Append(acc, c.val)))

\* many0(select_case), after the first case of many1
Many0SelectCase(s, i, acc) ==
    Bind(SelectCaseParser(s, i), LAMBDA c :
    IF ~c.ok THEN Parsed(i, acc)
    ELSE IF c.pos = i THEN Failed
    ELSE Many0SelectCase(s, c.pos, Append(acc, c.val)))

\* plural_expression: the head, ws ',' ws, many1(plural_case), ws '}'.
PluralExpression(s, i) ==
    Bind(ConstructHead(s, i, PluralKeyword), LAMBDA head :
    IF ~head.ok THEN Failed
    ELSE Bind(Multispace0(s, head.pos), LAMBDA comma :
         IF ~CharAt(s, comma, ",") THEN Failed
         ELSE Bind(PluralCase(s, Multispace0(s, comma + 1)), LAMBDA first :
              IF ~first.ok THEN Failed
              ELSE Bind(Many0PluralCase(s, first.pos, <<first.val>>),
                        LAMBDA cases :
                   IF ~cases.ok THEN Failed
                   ELSE Bind(Multispace0(s, cases.pos), LAMBDA close :
                        IF CharAt(s, close, "}")
                        THEN Parsed(close + 1, Plural(head.val, cases.val))
                        ELSE Failed)))))

\* select_expression
SelectExpression(s, i) ==
    Bind(ConstructHead(s, i, SelectKeyword), LAMBDA head :
    IF ~head.ok THEN Failed
    ELSE Bind(Multispace0(s, head.pos), LAMBDA comma :
         IF ~CharAt(s, comma, ",") THEN Failed
         ELSE Bind(SelectCaseParser(s, Multispace0(s, comma + 1)),
                   LAMBDA first :
              IF ~first.ok THEN Failed
              ELSE Bind(Many0SelectCase(s, first.pos, <<first.val>>),
                        LAMBDA cases :
                   IF ~cases.ok THEN Failed
                   ELSE Bind(Multispace0(s, cases.pos), LAMBDA close :
                        IF CharAt(s, close, "}")
                        THEN Parsed(close + 1, Select(head.val, cases.val))
                        ELSE Failed)))))

\* message_element
MessageElement(s, i) ==
    OrElse(NumberExpression(s, i),
    OrElse(SelectExpression(s, i),
    OrElse(PluralExpression(s, i),
    OrElse(SimpleParameter(s, i),
           TextSegment(s, i)))))

RECURSIVE Many1MessageElement(_, _, _)
\* many1(message_element): as many0, but failing when no element parses.
Many1MessageElement(s, i, acc) ==
    Bind(MessageElement(s, i), LAMBDA e :
    IF ~e.ok THEN (IF acc = <<>> THEN Failed ELSE Parsed(i, acc))
    ELSE IF e.pos = i THEN Failed
    ELSE Many1MessageElement(s, e.pos, Append(acc, e.val)))

RECURSIVE Many0MessageElement(_, _, _)
\* many0(message_element)
Many0MessageElement(s, i, acc) ==
    Bind(MessageElement(s, i), LAMBDA e :
    IF ~e.ok THEN Parsed(i, acc)
    ELSE IF e.pos = i THEN Failed
    ELSE Many0MessageElement(s, e.pos, Append(acc, e.val)))

\* parse_message: Ok((rest, message)) or Err, as nom's IResult.
ParseMessage(s) ==
    Bind(Many0MessageElement(s, 1, <<>>), LAMBDA m :
    IF m.ok
    THEN Ok([rest |-> SubSeq(s, m.pos, Len(s)), message |-> m.val])
    ELSE Err("nom::Err::Error"))

----------------------------------------------------------------------------
(* Values                                                                  *)

NotParsed == [tag |-> "NotParsed"]

NotReturned == [tag |-> "NotReturned"]

\* MessageFormatError (lib.rs)
ParseError(e) == [kind |-> "ParseError", error |-> e]

FormatError(e) == [kind |-> "FormatError", error |-> e]

----------------------------------------------------------------------------
(* The inputs of the model                                                 *)

\* The longest text over ShortAlphabet handed to lib::format.
MaxShort == 3

\* The largest count bound to a plural parameter; the smallest is -1.
MaxCount == 3

\* The longest case list of the generated plural and select elements.
MaxCases == 3

\* The longest generated sequence of top-level elements.
MaxElems == 3

Pair(name, value) == <<name, value>>

\* Template texts: those of the repository's tests and of the grammar's
\* corner cases.
Corpus == {
    \* Hello {n}!
    <<"H", "e", "l", "l", "o", " ", "{", "n", "}", "!">>,
    \* {c, plural, one{1 item} other{# items}} 
    <<"{", "c", ",", " ", "p", "l", "u", "r", "a", "l", ",", " ", "o", "n",
       "e", "{", "1", " ", "i", "t", "e", "m", "}", " ", "o", "t", "h",
       "e", "r", "{", "#", " ", "i", "t", "e", "m", "s", "}", "}", " ">>,
    \* {c, plural, zero{No} one{1} other{#}}
    <<"{", "c", ",", " ", "p", "l", "u", "r", "a", "l", ",", " ", "z", "e",
       "r", "o", "{", "N", "o", "}", " ", "o", "n", "e", "{", "1", "}",
       " ", "o", "t", "h", "e", "r", "{", "#", "}", "}">>,
    \* {g, select, male{He} female{She} other{They}}
    <<"{", "g", ",", " ", "s", "e", "l", "e", "c", "t", ",", " ", "m", "a",
       "l", "e", "{", "H", "e", "}", " ", "f", "e", "m", "a", "l", "e",
       "{", "S", "h", "e", "}", " ", "o", "t", "h", "e", "r", "{", "T",
       "h", "e", "y", "}", "}">>,
    \* {x, number}
    <<"{", "x", ",", " ", "n", "u", "m", "b", "e", "r", "}">>,
    \* {x, number, integer}
    <<"{", "x", ",", " ", "n", "u", "m", "b", "e", "r", ",", " ", "i", "n",
       "t", "e", "g", "e", "r", "}">>,
    \* {x, number, percent}
    <<"{", "x", ",", " ", "n", "u", "m", "b", "e", "r", ",", " ", "p", "e",
       "r", "c", "e", "n", "t", "}">>,
    \* {p, number, currency}
    <<"{", "p", ",", " ", "n", "u", "m", "b", "e", "r", ",", " ", "c", "u",
       "r", "r", "e", "n", "c", "y", "}">>,
    \* {p, number, currency/EUR}
    <<"{", "p", ",", " ", "n", "u", "m", "b", "e", "r", ",", " ", "c", "u",
       "r", "r", "e", "n", "c", "y", "/", "E", "U", "R", "}">>,
    \* {x, date}
    <<"{", "x", ",", " ", "d", "a", "t", "e", "}">>,
    \* {c, plural, =1{a}}
    <<"{", "c", ",", " ", "p", "l", "u", "r", "a", "l", ",", " ", "=", "1",
       "{", "a", "}", "}">>,
    \* {g, select, a-b{x}}
    <<"{", "g", ",", " ", "s", "e", "l", "e", "c", "t", ",", " ", "a", "-",
       "b", "{", "x", "}", "}">>,
    \* {g,select,m{{c,plural,1{# {n}} other{#s}}} other{-}}
    <<"{", "g", ",", "s", "e", "l", "e", "c", "t", ",", "m", "{", "{", "c",
       ",", "p", "l", "u", "r", "a", "l", ",", "1", "{", "#", " ", "{",
       "n", "}", "}", " ", "o", "t", "h", "e", "r", "{", "#", "s", "}",
       "}", "}", " ", "o", "t", "h", "e", "r", "{", "-", "}", "}">>,
    \* a}b{ n }#
    <<"a", "}", "b", "{", " ", "n", " ", "}", "#">>,
    \* {x, number }
    <<"{", "x", ",", " ", "n", "u", "m", "b", "e", "r", " ", "}">>,
    \* {x, number, integer }
    <<"{", "x", ",", " ", "n", "u", "m", "b", "e", "r", ",", " ", "i", "n",
       "t", "e", "g", "e", "r", " ", "}">>,
    \* {U+00E9}
    <<"{", "U+00E9", "}">>,
    \* {c, plural, foo{a} 7{b}}
    <<"{", "c", ",", " ", "p", "l", "u", "r", "a", "l", ",", " ", "f", "o",
       "o", "{", "a", "}", " ", "7", "{", "b", "}", "}">>
    }

\* A template whose plural selector is too large for an i64.
OverflowTexts == {
    \* {c, plural, 99999999999999999999{a}}
    <<"{", "c", ",", " ", "p", "l", "u", "r", "a", "l", ",", " ", "9", "9",
       "9", "9", "9", "9", "9", "9", "9", "9", "9", "9", "9", "9", "9",
       "9", "9", "9", "9", "9", "{", "a", "}", "}">>
    }

ShortAlphabet == {"{", "}", "a", " ", ","}

RECURSIVE TextsUpTo(_)
TextsUpTo(n) ==
    IF n = 0 THEN {<<>>}
    ELSE LET shorter == TextsUpTo(n - 1)
         IN  shorter \cup {Append(t, c) : t \in shorter, c \in ShortAlphabet}

\* All sequences over S of lengths lo..hi.
SeqsOf(S, lo, hi) == UNION {[1..n -> S] : n \in lo..hi}

\* The cases of a generated plural template.
MaxTokens == 2

\* Plural selector tokens: the keywords, numerals, a word, a digit that is
\* not ASCII, a numeral too large for an i64.
SelectorTokens ==
    {<<"z", "e", "r", "o">>, <<"o", "n", "e">>, <<"t", "w", "o">>,
     <<"f", "e", "w">>, <<"m", "a", "n", "y">>, <<"o", "t", "h", "e", "r">>,
     <<"1">>, <<"0", "0", "7">>, <<"f", "o", "o">>, <<"U+0663">>,
     [i \in 1..20 |-> "9"]}

\* The template "{c, plural, t1{a} t2{b} ..}" for the tokens t1, t2, ..
PluralTemplate(tokens) ==
    <<"{", "c", ",", " ">> \o PluralKeyword \o <<",">>
    \o Concat([i \in 1..Len(tokens) |->
                 <<" ">> \o tokens[i] \o <<"{", LowerChars[i], "}">>])
    \o <<"}">>

PluralTemplates ==
    {PluralTemplate(tokens) : tokens \in SeqsOf(SelectorTokens, 1, MaxTokens)}

\* The texts lib::format is called with: every prefix of a corpus text, the
\* overflowing selector, every short text and the plural templates.
Inputs ==
    UNION {{SubSeq(t, 1, k) : k \in 0..Len(t)} : t \in Corpus}
    \cup OverflowTexts \cup TextsUpTo(MaxShort) \cup PluralTemplates

\* The binding sets lib::format is called with.
LibParameters == {
    <<>>,
    <<Pair(<<"n">>, StringValue(<<"W", "o", "r", "l", "d">>)),
      Pair(<<"c">>, NumberValue(1)),
      Pair(<<"g">>, StringValue(<<"m", "a", "l", "e">>)),
      Pair(<<"x">>, NumberValue(5)),
      Pair(<<"p">>, StringValue(<<"1", "9", ".", "9", "9">>))>>,
    <<Pair(<<"c">>, StringValue(<<"5">>)),
      Pair(<<"g">>, StringValue(<<"n", "b">>)),
      Pair(<<"n">>, StringValue(<<"#">>)),
      Pair(<<"x">>, StringValue(<<"0", ".", "7", "5">>)),
      Pair(<<"p">>, NumberValue(25))>>
    }

\* The parameter names of the generated messages.
NameA == <<"a">>

NameB == <<"b">>

Counts == (-1)..MaxCount

\* Binding sets for `a` and `b`: each unbound or bound to one of the values.
Bindings(as, bs) ==
    {(IF x.some THEN <<Pair(NameA, x.v)>> ELSE <<>>)
     \o (IF y.some THEN <<Pair(NameB, y.v)>> ELSE <<>>) :
        x \in {None} \cup {Some(v) : v \in as},
        y \in {None} \cup {Some(v) : v \in bs}}

\* Plural elements over every selector, the i-th case body being the i-th
\* letter followed by '#'.
PluralSelectors ==
    {Zero, One, Two, Few, Many, Other} \cup {Exact(n) : n \in Counts}

PluralOf(sels) ==
    Plural(NameA, [i \in 1..Len(sels) |->
                      Case(sels[i], <<Text(<<LowerChars[i], "#">>)>>)])

PluralValues ==
    {NumberValue(n) : n \in Counts}
    \cup {StringValue(<<"2">>), StringValue(<<"1", "0", "0", "0">>),
          StringValue(<<"x">>), StringValue(<<"-", "1">>),
          StringValue(<<"0", "0", "7">>), StringValue(<<>>),
          StringValue(<<"1", ".", "5">>), StringValue(<<"U+0663">>),
          StringValue([i \in 1..20 |-> "9"])}

\* Select elements, the i-th case body being the i-th letter.
SelectSelectors ==
    {OtherSelector, <<"O", "t", "h", "e", "r">>, <<"x">>, <<"X">>, <<"2">>}

SelectOf(sels) ==
    Select(NameA, [i \in 1..Len(sels) |->
                      Case(sels[i], <<Text(<<LowerChars[i]>>)>>)])

SelectValues ==
    {StringValue(t) : t \in SelectSelectors}
    \cup {StringValue(<<>>), NumberValue(2)}

\* Elements of case bodies.
Leaves ==
    {Text(<<"#">>), Text(<<"t">>), Parameter(NameA), Parameter(NameB),
     Number(NameB, PercentFormat), Number(NameB, Currency(<<"E", "U">>))}

Bodies == SeqsOf(Leaves, 0, 2)

\* Constructs with one level of case bodies, and with two.
Nested1 ==
    {Plural(NameA, <<Case(Other, body)>>) : body \in Bodies}
    \cup {Select(NameB, <<Case(<<"x">>, body),
                          Case(OtherSelector, <<Text(<<"#">>)>>)>>) :
             body \in Bodies}
    \cup {Plural(NameA, <<Case(One, body), Case(Exact(3), <<>>)>>) :
             body \in Bodies}

Nested2 ==
    {Plural(NameB, <<Case(Other, <<Text(<<"#">>), e>>)>>) : e \in Nested1}

NestedValuesA ==
    {NumberValue(1), NumberValue(3), StringValue(<<"0">>), StringValue(<<"x">>)}

NestedValuesB ==
    {NumberValue(2), StringValue(<<"#">>), StringValue(<<"x">>),
     StringValue(<<"1", "2">>)}

\* Sequences of top-level elements, failing ones among them.
TopElements ==
    {Text(<<"t", "#">>), Parameter(NameA), Parameter(NameB),
     Number(NameA, IntegerFormat), Number(NameB, Currency(<<"E", "U">>)),
     Plural(NameA, <<Case(One, <<Parameter(NameB)>>),
                     Case(Other, <<Text(<<"#">>)>>)>>),
     Select(NameB, <<Case(<<"x">>, <<Parameter(NameA)>>),
                     Case(OtherSelector, <<Text(<<"o">>)>>)>>),
     Select(NameA, <<Case(<<"x">>, <<Text(<<"s">>)>>)>>)}

\* Currency codes: three letters in either case, too short, too long, with
\* a digit, with a letter that is not ASCII (of three bytes, and of three
\* characters).
CurrencyCodes ==
    {<<"E", "U", "R">>, <<"e", "u", "r">>, <<"U", "s", "d">>, <<"x", "Y", "z">>,
     <<"E", "U">>, <<"E", "U", "R", "O">>, <<"E", "1", "R">>,
     <<"U+00E9", "u">>, <<"U+00E9", "u", "r">>}

CurrencyValues ==
    {NumberValue(5), StringValue(<<"1", "9", ".", "9", "9">>),
     StringValue(<<"x">>)}

----------------------------------------------------------------------------
(* The state machine                                                       *)

\* lib::format(input, parameters) is called.
InitLib ==
    /\ via = "lib"
    /\ input \in Inputs
    /\ parameters \in LibParameters
    /\ parse_result = NotParsed
    /\ message = <<>>
    /\ idx = 1
    /\ result = <<>>
    /\ returned = NotReturned
    /\ outcome = NotReturned
    /\ pc = "parse"
    /\ slice = parameters
    /\ panic = None
    /\ calls = 1

\* format_message(&msg, params) is called on a constructed Message:
\* `result` is the empty String and the loop is at the first element.
DirectCall(msg, params) ==
    /\ via = "direct"
    /\ input = <<>>
    /\ message = msg
    /\ parameters = params
    /\ parse_result = NotParsed
    /\ idx = 1
    /\ result = <<>>
    /\ returned = NotReturned
    /\ outcome = NotReturned
    /\ pc = "loop"
    /\ slice = params
    /\ panic = None
    /\ calls = 1

\* The calls of format_message made directly, as the tests make them: on a
\* plural, on a select, on a construct with nested case bodies between two
\* texts, and on a sequence of elements.
InitDirect ==
    \/ \E sels \in SeqsOf(PluralSelectors, 1, MaxCases),
          params \in Bindings(PluralValues, {}) :
            DirectCall(<<PluralOf(sels)>>, params)
    \/ \E sels \in SeqsOf(SelectSelectors, 1, MaxCases),
          params \in Bindings(SelectValues, {}) :
            DirectCall(<<SelectOf(sels)>>, params)
    \/ \E e \in Nested1 \cup Nested2,
          params \in Bindings(NestedValuesA, NestedValuesB) :
            DirectCall(<<Text(<<"#">>), e, Text(<<"#">>)>>, params)
    \/ \E msg \in SeqsOf(TopElements, 0, MaxElems),
          params \in Bindings(NestedValuesA, NestedValuesB) :
            DirectCall(msg, params)
    \/ \E code \in CurrencyCodes, params \in Bindings(CurrencyValues, {}) :
            DirectCall(<<Text(<<"t">>), Number(NameA, Currency(code))>>,
                       params)

\* lib::format, `let (_, message) = parse_message(message_str)?;` and the
\* entry of format_message.
Parse ==
    /\ pc = "parse"
    /\ parse_result' = ParseMessage(input)
    /\ IF IsOk(parse_result')
       THEN /\ message' = parse_result'.value.message
            /\ pc' = "loop"
            /\ UNCHANGED outcome
       ELSE /\ outcome' = Err(ParseError(parse_result'.error))
            /\ pc' = "done"
            /\ UNCHANGED message
    /\ UNCHANGED <<via, input, parameters, idx, result, returned>>
    /\ UNCHANGED caller

\* The loop iteration skipping a failing element instead of returning.
FormatStepSkipsFailing ==
    /\ pc = "loop"
    /\ idx <= Len(message)
    /\ LET r == FormatElement(message[idx], parameters)
       IN  result' = IF IsOk(r) THEN result \o r.value ELSE result
    /\ idx' = idx + 1
    /\ UNCHANGED <<via, input, parse_result, message, parameters, outcome,
                   returned, pc>>
    /\ UNCHANGED caller

\* One iteration of format_message's loop over the top-level elements.
FormatStep ==
    /\ pc = "loop"
    /\ idx <= Len(message)
    /\ LET r == FormatElement(message[idx], parameters)
       IN  IF IsOk(r)
           THEN /\ result' = result \o r.value
                /\ idx' = idx + 1
                /\ UNCHANGED <<returned, pc>>
           ELSE /\ returned' = r
                /\ pc' = "returned"
                /\ UNCHANGED <<result, idx>>
    /\ UNCHANGED <<via, input, parse_result, message, parameters, outcome>>
    /\ UNCHANGED caller

\* format_message's `Ok(result)` after the loop.
FormatReturn ==
    /\ pc = "loop"
    /\ idx > Len(message)
    /\ returned' = Ok(result)
    /\ pc' = "returned"
    /\ UNCHANGED <<via, input, parse_result, message, parameters, idx,
                   result, outcome>>
    /\ UNCHANGED caller

\* lib::format, `let result = format_message(..)?; Ok(result)`.
LibReturn ==
    /\ pc = "returned"
    /\ via = "lib"
    /\ outcome' = IF IsOk(returned) THEN returned
                  ELSE Err(FormatError(returned.error))
    /\ pc' = "done"
    /\ UNCHANGED <<via, input, parse_result, message, parameters, idx,
                   result, returned>>
    /\ UNCHANGED caller

Next == Parse \/ FormatStep \/ FormatReturn \/ LibReturn

\* The parse-then-format pipeline.
Spec == InitLib /\ [][Next]_vars

NextFormat == FormatStep \/ FormatReturn

\* format_message called directly.
SpecFormat == InitDirect /\ [][NextFormat]_vars

----------------------------------------------------------------------------
(* Parameters::from_slice (types.rs)                                       *)

\* The longest slice handed to from_slice.
MaxPairs == 3

NameC == <<"c">>

\* The slices: every list of up to MaxPairs pairs over three names and two
\* values, lists with repeated names among them.
Slices ==
    SeqsOf({Pair(name, value) :
              name \in {NameA, NameB, NameC},
              value \in {StringValue(<<"x">>), NumberValue(1)}},
           0, MaxPairs)

\* Parameters::from_slice(slice) is called.
InitFromSlice ==
    /\ via = "from_slice"
    /\ slice \in Slices
    /\ parameters = <<>>
    /\ panic = None
    /\ pc = "from_slice"
    /\ input = <<>>
    /\ parse_result = NotParsed
    /\ message = <<>>
    /\ idx = 1
    /\ result = <<>>
    /\ returned = NotReturned
    /\ outcome = NotReturned
    /\ calls = 0

\* The loops comparing each key with the next pair's only.
DuplicateKeyAdjacent(list) ==
    LET repeated == {i \in 1..(Len(list) - 1) :
                       list[i][1] = list[i + 1][1]}
    IN  IF repeated = {} THEN None
        ELSE Some(list[CHOOSE i \in repeated :
                          \A j \in repeated : i <= j][1])

\* The nested loops of from_slice: the key of the first pair, in list
\* order, that a later pair repeats.
DuplicateKey(list) ==
    LET repeated == {i \in 1..Len(list) :
                       \E j \in (i + 1)..Len(list) :
                          list[i][1] = list[j][1]}
    IN  IF repeated = {} THEN None
        ELSE Some(list[CHOOSE i \in repeated :
                          \A j \in repeated : i <= j][1])

\* from_slice: panic!("Duplicate parameter key: {key}") or Self { pairs }.
FromSlice ==
    /\ pc = "from_slice"
    /\ IF DuplicateKey(slice).some
       THEN /\ panic' = DuplicateKey(slice)
            /\ pc' = "panicked"
            /\ UNCHANGED parameters
       ELSE /\ parameters' = slice
            /\ pc' = "built"
            /\ UNCHANGED panic
    /\ UNCHANGED <<via, input, parse_result, message, idx, result, returned,
                   outcome, slice, calls>>

SpecFromSlice == InitFromSlice /\ [][FromSlice]_vars

----------------------------------------------------------------------------
(* One parsed Message formatted again and again                            *)

\* The calls of format_message made on one Message.
MaxCalls == 3

\* A template is parsed once, for format_message to be called on the
\* Message any number of times.
InitReuse ==
    /\ via = "reuse"
    /\ input \in Corpus
    /\ parameters \in LibParameters
    /\ parse_result = NotParsed
    /\ message = <<>>
    /\ idx = 1
    /\ result = <<>>
    /\ returned = NotReturned
    /\ outcome = NotReturned
    /\ pc = "parse"
    /\ slice = parameters
    /\ panic = None
    /\ calls = 1

\* Another call entered with the String of the call before in `result`.
CallAgainOnOldResult ==
    /\ pc = "returned"
    /\ via = "reuse"
    /\ calls < MaxCalls
    /\ \E params \in LibParameters :
          /\ parameters' = params
          /\ slice' = params
    /\ idx' = 1
    /\ returned' = NotReturned
    /\ pc' = "loop"
    /\ calls' = calls + 1
    /\ UNCHANGED <<via, input, parse_result, message, result, outcome, panic>>

\* format_message(&message, params) is called once more, with any binding
\* set: `let mut result = String::new();` and the loop at the first element.
CallAgain ==
    /\ pc = "returned"
    /\ via = "reuse"
    /\ calls < MaxCalls
    /\ \E params \in LibParameters :
          /\ parameters' = params
          /\ slice' = params
    /\ idx' = 1
    /\ result' = <<>>
    /\ returned' = NotReturned
    /\ pc' = "loop"
    /\ calls' = calls + 1
    /\ UNCHANGED <<via, input, parse_result, message, outcome, panic>>

NextReuse == Parse \/ FormatStep \/ FormatReturn \/ CallAgain

SpecReuse == InitReuse /\ [][NextReuse]_vars

----------------------------------------------------------------------------
(* Properties of the parser and of the pipeline (specification Spec)       *)

HasOpenBrace(text) == \E i \in 1..Len(text) : text[i] = "{"

\* parse_message accepted the whole input.
ConsumedAll == IsOk(parse_result) /\ parse_result.value.rest = <<>>

\* C1: parse_message consumes the entire input or fails: whenever it
\* answers with a Message, nothing of the input is left unconsumed.
C1_ConsumesAllOrFails == IsOk(parse_result) => parse_result.value.rest = <<>>

\* C2: lib::format reports a text that the parser did not accept whole as a
\* ParseError, never as a string rendered from the text's parsed prefix.
C2_MismatchIsParseError ==
    (pc = "done" /\ ~ConsumedAll) =>
        (IsErr(outcome) /\ outcome.error.kind = "ParseError")

\* C3 as stated: a text without '{', the empty text included, parses to the
\* single element Text(text), and formats to itself.
C3_SingleTextElement ==
    (pc # "parse" /\ ~HasOpenBrace(input)) =>
        /\ Len(message) = 1 /\ message[1] = Text(input)
        /\ pc = "done" => outcome = Ok(input)

\* C3, amended: a non-empty text without '{' parses, with nothing left over,
\* to the single element Text(text), and the empty text to the Message
\* without elements; formatting either with any binding set yields the text.
C3_TextWithoutBrace ==
    (pc # "parse" /\ ~HasOpenBrace(input)) =>
        /\ parse_result =
              Ok([rest |-> <<>>,
                  message |-> IF input = <<>> THEN <<>> ELSE <<Text(input)>>])
        /\ message = parse_result.value.message
        /\ pc \in {"returned", "done"} => returned = Ok(input)
        /\ pc = "done" => outcome = Ok(input)

\* A text with '}' and without '{' went through the pipeline with bindings.
C3_Witness ==
    /\ pc = "done"
    /\ ~HasOpenBrace(input)
    /\ \E i \in 1..Len(input) : input[i] = "}"
    /\ parameters # <<>>
    /\ outcome = Ok(input)

----------------------------------------------------------------------------
(* Properties of the formatter (specification SpecFormat)                  *)

\* The least element of a non-empty set of case or element indices.
Least(S) == CHOOSE i \in S : \A j \in S : i <= j

\* The name a construct looks up in the binding set.
NameOf(e) == IF e.type = "Parameter" THEN e.name ELSE e.parameter

\* The element is a construct whose name has no binding.
Unbound(e) == e.type # "Text" /\ ~Get(parameters, NameOf(e)).some

\* The count the binding of `name` stands for: the Number itself, or the
\* String read as a base-10 integer; None without such a binding.
BoundCount(name) ==
    LET got == Get(parameters, name)
    IN  IF ~got.some THEN None
        ELSE IF got.v.kind = "Number" THEN Some(got.v.n)
        ELSE ParseI64(got.v.s)

\* The text with every '#' replaced by the decimal representation of c.
Expand(text, c) ==
    Concat([i \in 1..Len(text) |->
              IF text[i] = "#" THEN I64ToString(c) ELSE <<text[i]>>])

\* What a plural with count c emits for a chosen case body.
PluralRendering(body, c) ==
    LET sub == FormatMessage(body, parameters)
    IN  IF IsErr(sub) THEN sub ELSE Ok(Expand(sub.value, c))

\* format_message has returned from a call on a single plural element whose
\* count resolves.
SinglePlural ==
    /\ pc = "returned"
    /\ Len(message) = 1
    /\ message[1].type = "Plural"
    /\ BoundCount(message[1].parameter).some

\* C4: when some case of a plural has selector Exact(count), the first such
\* case in declared order is the one rendered, whatever category or `other`
\* cases stand before it.
C4_ExactPrecedence ==
    SinglePlural =>
        LET cases == message[1].cases
            c     == BoundCount(message[1].parameter).v
            exact == {i \in 1..Len(cases) : cases[i].selector = Exact(c)}
        IN  exact # {} =>
                returned = PluralRendering(cases[Least(exact)].message, c)

\* The third case, Exact(1), was rendered for count 1 although a `one` and
\* an `other` case stand before it.
C4_Witness ==
    /\ SinglePlural
    /\ Len(message[1].cases) = 3
    /\ message[1].cases[1].selector = One
    /\ message[1].cases[2].selector = Other
    /\ message[1].cases[3].selector = Exact(1)
    /\ BoundCount(message[1].parameter) = Some(1)
    /\ returned = Ok(<<"c", "1">>)

\* C5: a plural with exactly one `one` case and one `other` case renders
\* the `one` case for count 1 and the `other` case for every other count.
C5_OneOtherFallback ==
    SinglePlural =>
        LET cases == message[1].cases
            c     == BoundCount(message[1].parameter).v
        IN  (/\ Len(cases) = 2
             /\ {cases[1].selector, cases[2].selector} = {One, Other}) =>
                LET want   == IF c = 1 THEN One ELSE Other
                    chosen == CHOOSE i \in 1..2 : cases[i].selector = want
                IN  returned = PluralRendering(cases[chosen].message, c)

\* Count 0 rendered the `other` case, which stands after the `one` case.
C5_Witness ==
    /\ SinglePlural
    /\ Len(message[1].cases) = 2
    /\ message[1].cases[1].selector = One
    /\ message[1].cases[2].selector = Other
    /\ BoundCount(message[1].parameter) = Some(0)
    /\ returned = Ok(<<"b", "0">>)

\* No case of the plural or select element is selected by any step.
NoCaseMatches(e) ==
    \/ /\ e.type = "Plural"
       /\ BoundCount(e.parameter).some
       /\ LET c == BoundCount(e.parameter).v
          IN  \A i \in 1..Len(e.cases) :
                LET sel == e.cases[i].selector
                IN  /\ sel # Exact(c)
                    /\ sel # Other
                    /\ ~(c = 0 /\ sel = Zero)
                    /\ ~(c = 1 /\ sel = One)
                    /\ ~(c = 2 /\ sel = Two)
    \/ /\ e.type = "Select"
       /\ Get(parameters, e.parameter).some
       /\ Get(parameters, e.parameter).v.kind = "String"
       /\ \A i \in 1..Len(e.cases) :
            /\ e.cases[i].selector # Get(parameters, e.parameter).v.s
            /\ e.cases[i].selector # OtherSelector

\* C6: an element none of whose cases matches contributes the empty string
\* and the loop goes on; a message of texts and such elements formats, with
\* success, to its texts.
C6_NoMatchRendersEmpty ==
    [][/\ (pc = "loop" /\ idx <= Len(message) /\ NoCaseMatches(message[idx]))
            => (pc' = "loop" /\ idx' = idx + 1 /\ result' = result)
       /\ (/\ pc' = "returned"
           /\ \A k \in 1..Len(message) :
                message[k].type = "Text" \/ NoCaseMatches(message[k]))
            => returned' =
                 Ok(Concat([k \in 1..Len(message) |->
                              IF message[k].type = "Text"
                              THEN message[k].text ELSE <<>>]))]_vars

\* A select none of whose cases matches stood between two texts, and the
\* call returned the two texts.
C6_Witness ==
    /\ pc = "returned"
    /\ Len(message) = 3
    /\ message[1].type = "Text"
    /\ message[2].type = "Select"
    /\ NoCaseMatches(message[2])
    /\ message[3].type = "Text"
    /\ returned = Ok(message[1].text \o message[3].text)

\* C7: a select bound to the String v renders the first case whose selector
\* equals v exactly; without one, the first case whose selector is "other";
\* without that, nothing.
C7_SelectResolution ==
    (/\ pc = "returned"
     /\ Len(message) = 1
     /\ message[1].type = "Select"
     /\ Get(parameters, message[1].parameter).some
     /\ Get(parameters, message[1].parameter).v.kind = "String") =>
        LET cases == message[1].cases
            v     == Get(parameters, message[1].parameter).v.s
            FirstWith(k, sel) ==
                /\ cases[k].selector = sel
                /\ \A j \in 1..(k - 1) : cases[j].selector # sel
            Has(sel) == \E k \in 1..Len(cases) : cases[k].selector = sel
        IN  /\ \A k \in 1..Len(cases) :
                (FirstWith(k, v) \/ (~Has(v) /\ FirstWith(k, OtherSelector)))
                    => returned = FormatMessage(cases[k].message, parameters)
            /\ (~Has(v) /\ ~Has(OtherSelector)) => returned = Ok(<<>>)

\* The value "X" rendered the third case, "X", and neither the case "x" nor
\* the case "other" before it.
C7_Witness ==
    /\ pc = "returned"
    /\ Len(message) = 1
    /\ message[1].type = "Select"
    /\ Len(message[1].cases) = 3
    /\ message[1].cases[1].selector = <<"x">>
    /\ message[1].cases[2].selector = OtherSelector
    /\ message[1].cases[3].selector = <<"X">>
    /\ Get(parameters, message[1].parameter) = Some(StringValue(<<"X">>))
    /\ returned = Ok(<<"c">>)

RECURSIVE Referenced(_)
\* The names a message references, in any construct at any depth.
Referenced(msg) ==
    UNION {IF msg[k].type = "Text" THEN {}
           ELSE {NameOf(msg[k])}
                \cup (IF msg[k].type \in {"Plural", "Select"}
                      THEN UNION {Referenced(msg[k].cases[i].message) :
                                    i \in 1..Len(msg[k].cases)}
                      ELSE {}) :
           k \in 1..Len(msg)}

\* C8 as stated: a name referenced anywhere in the template and without a
\* binding makes format_message fail with MissingParameter(name).
C8_AnyReferenceMissing ==
    pc = "returned" =>
        \A name \in Referenced(message) :
            ~Get(parameters, name).some
                => returned = Err(MissingParameter(name))

\* The elements standing before element k of a body are texts and bound
\* parameters, which cannot fail.
ReachedIn(body, k) ==
    \A j \in 1..(k - 1) :
        \/ body[j].type = "Text"
        \/ body[j].type = "Parameter" /\ ~Unbound(body[j])

\* The case body a plural or select element selects, if any.
SelectedBody(e) ==
    IF e.type = "Plural" /\ BoundCount(e.parameter).some
    THEN LET sel == SelectPluralCase(e, BoundCount(e.parameter).v)
         IN  IF sel.some THEN Some(e.cases[sel.v].message) ELSE None
    ELSE IF /\ e.type = "Select"
            /\ Get(parameters, e.parameter).some
            /\ Get(parameters, e.parameter).v.kind = "String"
    THEN LET sel == SelectCase(e, Get(parameters, e.parameter).v.s)
         IN  IF sel.some THEN Some(e.cases[sel.v].message) ELSE None
    ELSE None

\* C8, amended: when the evaluation reaches a Parameter, Plural, Select or
\* Number construct whose name has no binding (at top level after the
\* elements before it succeeded, or in the selected case body of a plural
\* or select) format_message fails with MissingParameter carrying that
\* name.
C8_ReachedReferenceMissing ==
    [][(pc = "loop" /\ idx <= Len(message)) =>
        LET e == message[idx]
        IN  /\ Unbound(e) =>
                (pc' = "returned"
                 /\ returned' = Err(MissingParameter(NameOf(e))))
            /\ SelectedBody(e).some =>
                LET body == SelectedBody(e).v
                IN  \A k \in 1..Len(body) :
                        (ReachedIn(body, k) /\ Unbound(body[k])) =>
                            (pc' = "returned"
                             /\ returned' =
                                  Err(MissingParameter(NameOf(body[k]))))]_vars

\* A plural with a bound count selected a case whose body references the
\* unbound name b, and the call failed with MissingParameter(b).
C8_Witness ==
    /\ pc = "returned"
    /\ idx = 2
    /\ Len(message) = 3
    /\ message[2].type = "Plural"
    /\ ~Unbound(message[2])
    /\ SelectedBody(message[2]).some
    /\ \E k \in 1..Len(SelectedBody(message[2]).v) :
          /\ SelectedBody(message[2]).v[k].type = "Number"
          /\ Unbound(SelectedBody(message[2]).v[k])
    /\ returned = Err(MissingParameter(NameB))

\* What an element contributes to the output: for a plural, the rendered
\* text of the chosen case with every '#' replaced by the count; for any
\* other element, its rendered text as it is.
Piece(e) ==
    IF e.type = "Plural"
    THEN IF SelectedBody(e).some
         THEN Expand(FormatMessage(SelectedBody(e).v, parameters).value,
                     BoundCount(e.parameter).v)
         ELSE <<>>
    ELSE IF e.type = "Text" THEN e.text
    ELSE FormatElement(e, parameters).value

\* C9: the text a plural element emits is the fully rendered text of the
\* chosen case with every '#' replaced by the decimal count; the '#' of
\* texts and values outside plural case bodies are emitted unchanged.
C9_HashSubstitution ==
    (pc = "returned" /\ IsOk(returned)) =>
        returned.value = Concat([k \in 1..Len(message) |-> Piece(message[k])])

\* Between two '#' texts, a plural with count 3 rendered a case body made
\* of the parameter b, bound to "#", and the text "#": the output is "#33#".
C9_Witness ==
    /\ pc = "returned"
    /\ Len(message) = 3
    /\ message[1] = Text(<<"#">>)
    /\ message[2].type = "Plural"
    /\ BoundCount(message[2].parameter) = Some(3)
    /\ SelectedBody(message[2]) = Some(<<Parameter(NameB), Text(<<"#">>)>>)
    /\ Get(parameters, NameB) = Some(StringValue(<<"#">>))
    /\ message[3] = Text(<<"#">>)
    /\ returned = Ok(<<"#", "3", "3", "#">>)

\* The elements of a message whose evaluation fails.
Failing(msg) ==
    {k \in 1..Len(msg) : IsErr(FormatElement(msg[k], parameters))}

\* C10: format_message returns the error of the earliest failing element in
\* document order and no output string, and succeeds when no element fails;
\* a plural or select fails with the first error of its selected case body.
C10_FirstErrorAtomic ==
    pc = "returned" =>
        /\ Failing(message) = {} => IsOk(returned)
        /\ Failing(message) # {} =>
              /\ returned = FormatElement(message[Least(Failing(message))],
                                          parameters)
              /\ DOMAIN returned = {"tag", "error"}
        /\ \A k \in 1..Len(message) :
              (SelectedBody(message[k]).some
               /\ Failing(SelectedBody(message[k]).v) # {}) =>
                  LET body == SelectedBody(message[k]).v
                  IN  FormatElement(message[k], parameters)
                        = FormatElement(body[Least(Failing(body))], parameters)

\* After a text, two unbound parameters a and b: the call failed with
\* MissingParameter(a), the text accumulated being dropped.
C10_Witness ==
    /\ pc = "returned"
    /\ Len(message) = 3
    /\ message[1].type = "Text"
    /\ message[2] = Parameter(NameA)
    /\ message[3] = Parameter(NameB)
    /\ parameters = <<>>
    /\ result = message[1].text
    /\ result # <<>>
    /\ returned = Err(MissingParameter(NameA))

\* What a plural renders for the count c: the chosen case with its '#'
\* replaced, or nothing when no case is chosen.
RenderedForCount(e, c) ==
    LET sel == SelectPluralCase(e, c)
    IN  IF sel.some THEN PluralRendering(e.cases[sel.v].message, c)
        ELSE Ok(<<>>)

\* Strings that are no base-10 integer of 64 bits: a letter, the empty
\* string, a fraction, a digit that is not ASCII, twenty nines.
NotIntegers ==
    {<<"x">>, <<>>, <<"1", ".", "5">>, <<"U+0663">>, [i \in 1..20 |-> "9"]}

\* C11: a plural renders for the count n when its parameter is bound to
\* Number(n) or to a String that reads as the base-10 integer n, and fails
\* with InvalidParameterType(name) when it is bound to a String that is no
\* base-10 integer, whatever the cases.
C11_CountResolution ==
    (/\ pc = "returned"
     /\ Len(message) = 1
     /\ message[1].type = "Plural"
     /\ Get(parameters, message[1].parameter).some) =>
        LET e == message[1]
            v == Get(parameters, e.parameter).v
        IN  /\ v.kind = "Number" => returned = RenderedForCount(e, v.n)
            /\ (v.kind = "String" /\ v.s = <<"0", "0", "7">>)
                    => returned = RenderedForCount(e, 7)
            /\ (v.kind = "String" /\ v.s = <<"-", "1">>)
                    => returned = RenderedForCount(e, -1)
            /\ (v.kind = "String" /\ ParseI64(v.s).some)
                    => returned = RenderedForCount(e, ParseI64(v.s).v)
            /\ (v.kind = "String"
                /\ (v.s \in NotIntegers \/ ~ParseI64(v.s).some))
                    => returned = Err(InvalidParameterType(e.parameter))

\* A plural with an `other` case, its parameter bound to the String "1.5",
\* failed with InvalidParameterType(a).
C11_Witness ==
    /\ pc = "returned"
    /\ Len(message) = 1
    /\ message[1].type = "Plural"
    /\ \E i \in 1..Len(message[1].cases) :
          message[1].cases[i].selector = Other
    /\ Get(parameters, NameA) = Some(StringValue(<<"1", ".", "5">>))
    /\ returned = Err(InvalidParameterType(NameA))

\* C12: when the loop reaches a select whose parameter is bound to a Number,
\* the call fails with InvalidParameterType(name), whatever the cases: a
\* selector equal to the number's decimal text or an `other` case does not
\* match.
C12_SelectOnNumberFails ==
    [][(/\ pc = "loop"
        /\ idx <= Len(message)
        /\ message[idx].type = "Select"
        /\ Get(parameters, message[idx].parameter).some
        /\ Get(parameters, message[idx].parameter).v.kind = "Number")
            => (/\ pc' = "returned"
                /\ returned' =
                     Err(InvalidParameterType(message[idx].parameter)))]_vars

\* A select with the cases "2" and "other", its parameter bound to
\* Number(2), failed with InvalidParameterType(a).
C12_Witness ==
    /\ pc = "returned"
    /\ Len(message) = 1
    /\ message[1].type = "Select"
    /\ Len(message[1].cases) = 2
    /\ message[1].cases[1].selector = <<"2">>
    /\ message[1].cases[2].selector = OtherSelector
    /\ Get(parameters, NameA) = Some(NumberValue(2))
    /\ returned = Err(InvalidParameterType(NameA))

RECURSIVE TokensOf(_)
\* The parameter names and the select-case selector tokens of a message, at
\* any depth.
TokensOf(msg) ==
    UNION {IF msg[k].type = "Text" THEN {}
           ELSE {NameOf(msg[k])}
                \cup (IF msg[k].type = "Select"
                      THEN {msg[k].cases[i].selector :
                              i \in 1..Len(msg[k].cases)}
                      ELSE {})
                \cup (IF msg[k].type \in {"Plural", "Select"}
                      THEN UNION {TokensOf(msg[k].cases[i].message) :
                                    i \in 1..Len(msg[k].cases)}
                      ELSE {}) :
           k \in 1..Len(msg)}

\* C15: the names and select-case selector tokens of a parsed message are
\* non-empty strings of ASCII letters, ASCII digits and '_'.
C15_TokensAreAscii ==
    pc # "parse" =>
        \A token \in TokensOf(message) :
            /\ token # <<>>
            /\ \A i \in 1..Len(token) :
                  token[i] \in AsciiLower \cup AsciiUpper
                                \cup AsciiDigit \cup {"_"}

RECURSIVE WithoutSpaceBeforeClose(_)
\* The text without the whitespace that stands directly before a '}'.
WithoutSpaceBeforeClose(text) ==
    IF text = <<>> THEN <<>>
    ELSE LET rest == WithoutSpaceBeforeClose(Tail(text))
         IN  IF IsMultispace(Head(text)) /\ rest # <<>> /\ Head(rest) = "}"
             THEN rest
             ELSE <<Head(text)>> \o rest

\* C16: a text that is a number construct once the whitespace before its
\* closing '}' is taken away parses to the same Number element as the text
\* without that whitespace, with or without a number kind.
C16_SpaceBeforeCloseIgnored ==
    pc # "parse" =>
        LET tight == ParseMessage(WithoutSpaceBeforeClose(input))
        IN  (/\ IsOk(tight)
             /\ tight.value.rest = <<>>
             /\ Len(tight.value.message) = 1
             /\ tight.value.message[1].type = "Number")
                => (/\ IsOk(parse_result)
                    /\ parse_result.value.rest = <<>>
                    /\ message = tight.value.message)

\* The selector a plural selector token stands for: its category for a
\* keyword, Exact(n) for the decimal integer n, Other for anything else.
SelectorFor(token) ==
    CASE token = <<"z", "e", "r", "o">>      -> Zero
      [] token = <<"o", "n", "e">>           -> One
      [] token = <<"t", "w", "o">>           -> Two
      [] token = <<"f", "e", "w">>           -> Few
      [] token = <<"m", "a", "n", "y">>      -> Many
      [] token = <<"o", "t", "h", "e", "r">> -> Other
      [] token = <<"1">>                     -> Exact(1)
      [] token = <<"0", "0", "7">>           -> Exact(7)
      [] OTHER                               -> Other

\* The runs of a text that stand between a space and a '{' after it, in
\* order: the selector tokens of a plural template.
TokensBeforeBraces(text) ==
    LET opens    == {i \in 2..Len(text) : text[i] = "{"}
        Nth(k)   == CHOOSE o \in opens :
                        Cardinality({p \in opens : p <= o}) = k
        Start(o) == LET spaces == {j \in 1..(o - 1) : text[j] = " "}
                    IN  IF spaces = {} THEN 1
                        ELSE 1 + CHOOSE j \in spaces :
                                    \A l \in spaces : l <= j
    IN  [k \in 1..Cardinality(opens) |->
            SubSeq(text, Start(Nth(k)), Nth(k) - 1)]

\* C17: the plural template with the selector tokens t1, t2, .. parses, with
\* nothing left over, to a plural whose i-th case has the selector ti
\* stands for: a word that is no keyword, a digit that is not ASCII and a
\* numeral too large for 64 bits give Other.
C17_PluralSelectorTokens ==
    pc # "parse" =>
        LET tokens == TokensBeforeBraces(input)
        IN  (/\ tokens # <<>>
             /\ \A i \in 1..Len(tokens) : tokens[i] \in SelectorTokens
             /\ input = PluralTemplate(tokens)) =>
                /\ IsOk(parse_result)
                /\ parse_result.value.rest = <<>>
                /\ message =
                     <<Plural(<<"c">>,
                              [i \in 1..Len(tokens) |->
                                 Case(SelectorFor(tokens[i]),
                                      <<Text(<<LowerChars[i]>>)>>)])>>

\* "{c, plural, foo{a} 007{b}}" parsed to a plural with the cases Other and
\* Exact(7).
C17_Witness ==
    /\ pc = "loop"
    /\ input = PluralTemplate(<<<<"f", "o", "o">>, <<"0", "0", "7">>>>)
    /\ Len(message) = 1
    /\ message[1].type = "Plural"
    /\ message[1].cases[1].selector = Other
    /\ message[1].cases[2].selector = Exact(7)

\* The code is exactly three ASCII letters.
ThreeAsciiLetters(code) ==
    /\ Len(code) = 3
    /\ \A i \in 1..3 : code[i] \in AsciiLower \cup AsciiUpper

\* The number a Number element's parameter is bound to, when it is bound
\* to a Number or to a String that reads as a number.
BoundNumber(name) ==
    LET got == Get(parameters, name)
    IN  IF ~got.some THEN None
        ELSE IF got.v.kind = "Number" THEN Some(I64ToF64(got.v.n))
        ELSE ParseF64(got.v.s)

\* C18: when format_number is called for a Number element with the format
\* type Currency(code), a code that is not exactly three ASCII letters makes
\* the call fail with InvalidParameterType, and a code of three ASCII
\* letters in any letter case renders what its uppercase form renders.
C18_CurrencyCode ==
    [][(/\ pc = "loop"
        /\ idx <= Len(message)
        /\ message[idx].type = "Number"
        /\ message[idx].format_type.kind = "Currency"
        /\ BoundNumber(message[idx].parameter).some) =>
            LET code  == message[idx].format_type.code
                value == BoundNumber(message[idx].parameter).v
            IN  IF ThreeAsciiLetters(code)
                THEN /\ pc' = "loop"
                     /\ LET upper == FormatNumber(value,
                                                  Currency(ToUppercase(code)))
                        IN  IsOk(upper) /\ result' = result \o upper.value
                ELSE /\ pc' = "returned"
                     /\ IsErr(returned')
                     /\ returned'.error.kind = "InvalidParameterType"]_vars

\* The code "E1R", of three characters one of which is a digit, made the
\* call fail with InvalidParameterType although the value was a number.
C18_Witness ==
    /\ pc = "returned"
    /\ Len(message) = 2
    /\ message[2] = Number(NameA, Currency(<<"E", "1", "R">>))
    /\ Get(parameters, NameA) = Some(NumberValue(5))
    /\ IsErr(returned)
    /\ returned.error.kind = "InvalidParameterType"

\* C19: parse_message returns Ok for every text, with a residue that is a
\* suffix of the text and is empty or begins with '{'.
C19_NeverFailsResidueAtBrace ==
    pc # "parse" =>
        /\ IsOk(parse_result)
        /\ LET rest == parse_result.value.rest
           IN  /\ Len(rest) <= Len(input)
               /\ SubSeq(input, 1, Len(input) - Len(rest)) \o rest = input
               /\ rest = <<>> \/ Head(rest) = "{"

\* A text was parsed in part: elements were produced and a residue that
\* begins with '{' was left.
C19_Witness ==
    /\ pc = "loop"
    /\ message # <<>>
    /\ parse_result.value.rest # <<>>
    /\ Head(parse_result.value.rest) = "{"
    /\ Len(parse_result.value.rest) < Len(input)

\* The outcomes of the five alternatives at a position, at top level
\* (in_case FALSE) or in a case body (in_case TRUE).
Alternatives(s, i, in_case) ==
    <<NumberExpression(s, i), SelectExpression(s, i), PluralExpression(s, i),
      SimpleParameter(s, i),
      IF in_case THEN TextSegmentInCase(s, i) ELSE TextSegment(s, i)>>

\* C20: at every position of a text at most one of the five alternatives
\* succeeds, at top level and in a case body, and the element the parser
\* produces there is the outcome of that alternative: no ordering of the
\* alternatives gives another element at any position, so none gives
\* another Message.
C20_AlternativesExclusive ==
    (pc = "loop" /\ idx = 1) =>
        \A i \in 1..(Len(input) + 1), in_case \in BOOLEAN :
            LET alts  == Alternatives(input, i, in_case)
                taken == IF in_case THEN CaseElement(input, i)
                         ELSE MessageElement(input, i)
            IN  /\ Cardinality({k \in 1..5 : alts[k].ok}) <= 1
                /\ \A k \in 1..5 : alts[k].ok => taken = alts[k]
                /\ taken.ok => \E k \in 1..5 : taken = alts[k]

\* In a text that parses to a select, a plural construct stands in a case
\* body: there the plural alternative succeeds and no other.
C20_Witness ==
    /\ pc = "loop"
    /\ idx = 1
    /\ Len(message) = 1
    /\ message[1].type = "Select"
    /\ \E i \in 2..Len(input) :
          LET alts == Alternatives(input, i, TRUE)
          IN  {k \in 1..5 : alts[k].ok} = {3}

\* The cases select_plural_case may return for the count c: those with the
\* selector Exact(c), Zero for 0, One for 1, Two for 2, or Other.
Selectable(cases, c) ==
    {i \in 1..Len(cases) :
        \/ cases[i].selector = Exact(c)
        \/ cases[i].selector = Zero /\ c = 0
        \/ cases[i].selector = One /\ c = 1
        \/ cases[i].selector = Two /\ c = 2
        \/ cases[i].selector = Other}

\* C21: what a plural renders is the rendering of a case whose selector is
\* Exact(count), Zero for 0, One for 1, Two for 2, or Other, and nothing
\* when it has no such case: a `few` or `many` case is never the one
\* selected, whatever the count and the other cases.
C21_FewManyNeverSelected ==
    (SinglePlural /\ IsOk(returned)) =>
        LET cases == message[1].cases
            c     == BoundCount(message[1].parameter).v
        IN  IF Selectable(cases, c) = {} THEN returned = Ok(<<>>)
            ELSE \E i \in Selectable(cases, c) :
                    returned = PluralRendering(cases[i].message, c)

\* For the count 3, the plural with the cases many, few and other rendered
\* its third case.
C21_Witness ==
    /\ SinglePlural
    /\ Len(message[1].cases) = 3
    /\ message[1].cases[1].selector = Many
    /\ message[1].cases[2].selector = Few
    /\ message[1].cases[3].selector = Other
    /\ BoundCount(message[1].parameter) = Some(3)
    /\ returned = Ok(<<"c", "3">>)

RECURSIVE EvaluatedFine(_)
\* Every reference the evaluation of a message comes to is bound to a value
\* of the type its construct needs (and every currency code it comes to is
\* valid): the elements of the message itself and, for a plural or select,
\* those of the selected case body, at any depth.  The bodies of the cases
\* that are not selected do not count.
EvaluatedFine(msg) ==
    \A k \in 1..Len(msg) :
        LET e == msg[k]
        IN  CASE e.type = "Text" -> TRUE
              [] e.type = "Parameter" -> ~Unbound(e)
              [] e.type = "Number" ->
                    /\ BoundNumber(e.parameter).some
                    /\ e.format_type.kind = "Currency"
                          => ThreeAsciiLetters(e.format_type.code)
              [] e.type = "Plural" ->
                    /\ BoundCount(e.parameter).some
                    /\ SelectedBody(e).some => EvaluatedFine(SelectedBody(e).v)
              [] e.type = "Select" ->
                    /\ Get(parameters, e.parameter).some
                    /\ Get(parameters, e.parameter).v.kind = "String"
                    /\ SelectedBody(e).some => EvaluatedFine(SelectedBody(e).v)

\* C22: format_message succeeds whenever the references of the elements it
\* evaluates are bound and well typed, whatever the case bodies that are
\* not selected reference.
C22_OnlySelectedBodyEvaluated ==
    (pc = "returned" /\ EvaluatedFine(message)) => IsOk(returned)

\* The call succeeded on a message with a plural one of whose cases, not
\* selected, has a body that fails with InvalidParameterType for the
\* bindings of the call.
C22_Witness ==
    /\ pc = "returned"
    /\ IsOk(returned)
    /\ \E k \in 1..Len(message) :
          /\ message[k].type = "Plural"
          /\ \E i \in 1..Len(message[k].cases) :
                LET sub == FormatMessage(message[k].cases[i].message,
                                         parameters)
                IN  IsErr(sub) /\ sub.error.kind = "InvalidParameterType"

\* C23: the text a plural element appends to the result holds no '#', and
\* it is, element by element of the chosen case body, what an inner plural
\* emits for its own count, left as it is, and what any other element
\* renders with its '#' replaced by the count of the outer plural.
C23_PluralEmitsNoHash ==
    [][(/\ pc = "loop"
        /\ idx <= Len(message)
        /\ message[idx].type = "Plural"
        /\ pc' = "loop") =>
            LET e       == message[idx]
                emitted == SubSeq(result', Len(result) + 1, Len(result'))
            IN  /\ result' = result \o emitted
                /\ \A i \in 1..Len(emitted) : emitted[i] # "#"
                /\ SelectedBody(e).some =>
                      LET body == SelectedBody(e).v
                          c    == BoundCount(e.parameter).v
                      IN  emitted =
                            Concat([j \in 1..Len(body) |->
                                      IF body[j].type = "Plural"
                                      THEN Piece(body[j])
                                      ELSE Expand(Piece(body[j]), c)])]_vars

\* Between two '#' texts, a plural on b = 2 whose case body is '#' and a
\* plural on a = 3 with the case body "#t": the output is "#23t#".
C23_Witness ==
    /\ pc = "returned"
    /\ message = <<Text(<<"#">>),
                   Plural(NameB,
                          <<Case(Other,
                                 <<Text(<<"#">>),
                                   Plural(NameA,
                                          <<Case(Other,
                                                 <<Text(<<"#">>),
                                                   Text(<<"t">>)>>)>>)>>)>>),
                   Text(<<"#">>)>>
    /\ Get(parameters, NameB) = Some(NumberValue(2))
    /\ Get(parameters, NameA) = Some(NumberValue(3))
    /\ returned = Ok(<<"#", "2", "3", "t", "#">>)

----------------------------------------------------------------------------
(* Properties of Parameters (specification SpecFromSlice)                  *)

\* Two pairs of the slice carry the name.
Repeated(name) ==
    \E i, j \in 1..Len(slice) :
        i # j /\ slice[i][1] = name /\ slice[j][1] = name

\* C13: from_slice panics, naming a repeated name, exactly when two pairs
\* of the slice carry the same name; otherwise it returns a binding set in
\* which get(name) is the value paired with the name and None for a name
\* the slice does not list.
C13_FromSliceDistinctNames ==
    pc \in {"built", "panicked"} =>
        /\ pc = "panicked" <=> \E name \in {NameA, NameB, NameC} : Repeated(name)
        /\ pc = "panicked" => (panic.some /\ Repeated(panic.v))
        /\ pc = "built" =>
              /\ panic = None
              /\ \A i \in 1..Len(slice) :
                    Get(parameters, slice[i][1]) = Some(slice[i][2])
              /\ \A name \in {NameA, NameB, NameC} :
                    (\A i \in 1..Len(slice) : slice[i][1] # name)
                        => Get(parameters, name) = None

\* The slice (a, b, a) made from_slice panic with the key a.
C13_Witness ==
    /\ pc = "panicked"
    /\ Len(slice) = 3
    /\ slice[1][1] = NameA
    /\ slice[2][1] = NameB
    /\ slice[3][1] = NameA
    /\ panic = Some(NameA)

----------------------------------------------------------------------------
(* Properties of repeated calls (specification SpecReuse)                  *)

\* C14: every call of format_message on a parsed Message, whatever calls
\* and binding sets came before, returns what a single call with the same
\* binding set returns on the Message parsed afresh from the same text, and
\* no step of a call changes the Message.  (The locale is the same in all
\* calls.)
C14_PureAndInputsUnchanged ==
    [][/\ pc # "parse" => message' = message
       /\ pc' = "returned" =>
             /\ message' = ParseMessage(input).value.message
             /\ returned' = FormatMessage(ParseMessage(input).value.message,
                                          parameters')]_vars

\* The third call on one Message returned the text a single call gives for
\* its bindings; with no bindings the same Message fails.
C14_Witness ==
    /\ via = "reuse"
    /\ calls = 3
    /\ pc = "returned"
    /\ message # <<>>
    /\ IsOk(returned)
    /\ returned.value # <<>>
    /\ returned = FormatMessage(message, parameters)
    /\ parameters # <<>>
    /\ IsErr(FormatMessage(message, <<>>))

====
